---------------------------- MODULE Spec2Model ----------------------------
(***************************************************************************)
(* Model of calculate_aircraft_geometry.py: the class aircraft_geometry,   *)
(* whose constructor loads a configuration, derives the geometric          *)
(* descriptors of a lifting surface and of its control surface, and prints *)
(* them.                                                                   *)
(*                                                                         *)
(* Numbers.  The program computes with Python floats.  The model computes  *)
(* with exact rationals n/d (d > 0, lowest terms), so a ratio is zero, one *)
(* or equal to another ratio exactly when the real-number value is.  A     *)
(* Python float division by zero raises ZeroDivisionError; it never yields *)
(* an infinity or a NaN.  Angles are kept symbolically as the direction    *)
(* (y, x) of the ray they measure, in lowest terms.  np.tan of a right     *)
(* angle is a huge finite float that absorbs any addend of the sizes the   *)
(* model draws; it is the value of kind "huge".                            *)
(*                                                                         *)
(* Every value has the shape [t, n, d]: t names the Python type or state   *)
(* of the attribute, n and d carry the number.                             *)
(***************************************************************************)
EXTENDS Integers, Sequences, FiniteSets

VARIABLES input, obj, pc, out, err

vars == <<input, obj, pc, out, err>>

(* ------------------------------ bounds --------------------------------- *)
\* largest root/tip chord of the lifting surface, inches
MaxChord == 2
\* largest semispan and spanwise distance, inches
MaxSpan == 1
\* largest control-surface chord, inches
MaxCsChord == 1
\* largest sweep-defining offset (parallel / perpendicular length), inches
MaxOffset == 1
\* largest value of a varied field when two derivations run side by side
ParMax == 1

(* ------------------------------ values --------------------------------- *)
Abs(x) == IF x < 0 THEN -x ELSE x

RECURSIVE GCD(_, _)
GCD(a, b) == IF b = 0 THEN a ELSE GCD(b, a % b)

Sign(x) == IF x < 0 THEN -1 ELSE IF x > 0 THEN 1 ELSE 0

\* a Python float, as the rational n/d in lowest terms with d > 0
Float(n, d) ==
    LET g == GCD(Abs(n), Abs(d))
        s == IF d < 0 THEN -1 ELSE 1
    IN  [t |-> "float", n |-> (s * n) \div g, d |-> (s * d) \div g]

\* an attribute that has not been assigned
Unset == [t |-> "unset", n |-> 0, d |-> 1]

\* the string "N/A"
NA == [t |-> "N/A", n |-> 0, d |-> 1]

\* what a division by zero leaves instead of a value: the exception
ZeroDivisionError == [t |-> "ZeroDivisionError", n |-> 0, d |-> 1]

\* an infinity, which only a division that does not raise could produce
Inf == [t |-> "inf", n |-> 0, d |-> 1]

\* an angle in radians: the direction (y, x) it measures, in lowest terms
Angle(y, x) ==
    LET g == GCD(Abs(y), Abs(x))
    IN  IF g = 0 THEN [t |-> "radians", n |-> 0, d |-> 1]
        ELSE [t |-> "radians", n |-> y \div g, d |-> x \div g]

IsZero(v) == v.t = "float" /\ v.n = 0

Add(a, b) == Float(a.n * b.d + b.n * a.d, a.d * b.d)

Sub(a, b) == Float(a.n * b.d - b.n * a.d, a.d * b.d)

Mul(a, b) == Float(a.n * b.n, a.d * b.d)

Neg(a) == Float(-a.n, a.d)

Leq(a, b) == a.n * b.d <= b.n * a.d

\* a division as numpy would do it: no exception, an infinity instead
truediv_numpy(a, b) ==
    IF b.n = 0 THEN Inf ELSE Float(a.n * b.d, a.d * b.n)

\* a / b on Python floats: raises ZeroDivisionError when b == 0
truediv(a, b) ==
    IF b.n = 0 THEN ZeroDivisionError ELSE Float(a.n * b.d, a.d * b.n)

Raised(v) == v.t = "ZeroDivisionError"

\* inches_to_feet: inches / 12.0
inches_to_feet(inches) == truediv(inches, Float(12, 1))

\* np.arctan2(y, x) on floats
arctan2(y, x) == Angle(y.n * x.d, x.n * y.d)

\* np.tan(angle): y/x, or the huge float of a right angle
tan(a) ==
    IF a.d = 0 THEN [t |-> "huge", n |-> Sign(a.n), d |-> 1]
    ELSE Float(a.n, a.d)

\* np.arctan(v): the angle in [-pi/2, pi/2] whose tangent is v
arctan(v) ==
    IF v.t = "huge" THEN Angle(v.n, 0) ELSE Angle(v.n, v.d)

\* np.tan(angle) + term: the huge float absorbs the term
tan_plus(tn, term) == IF tn.t = "huge" THEN tn ELSE Add(tn, term)

\* np.degrees(angle): the same direction, read in degrees
degrees(a) == [t |-> "degrees", n |-> a.n, d |-> a.d]

(* ------------------------------ inputs --------------------------------- *)
\* a configuration file: the fields of its two sections, in inches
Config(sw, hc, nose, par, perp, rc, tc, ss, th, sd, cc, ct) ==
    [swept |-> sw, has_control_surface |-> hc,
     length_from_nose_to_leading_edge_at_root |-> Float(nose, 1),
     length_parallel_to_unswept_segment |-> Float(par, 1),
     length_perpendicular_to_unswept_segment |-> Float(perp, 1),
     root_chord |-> Float(rc, 1), tip_chord |-> Float(tc, 1),
     semispan |-> Float(ss, 1), thickness |-> Float(th, 1),
     spanwise_distance_from_root |-> <<Float(sd[1], 1), Float(sd[2], 1)>>,
     chord |-> <<Float(cc[1], 1), Float(cc[2], 1)>>,
     cs_thickness |-> <<Float(ct[1], 1), Float(ct[2], 1)>>]

\* the lifting-surface thicknesses drawn, inches
Thicknesses == {1, 2}

\* the configurations two side-by-side derivations are run on
ParInputs ==
    { Config(sw, hc, 12, 1, 1, rc, 1, ss, 1, <<0, 1>>, <<cr, 1>>, <<1, 1>>) :
        sw \in BOOLEAN, hc \in BOOLEAN,
        rc \in 0..ParMax, ss \in 0..ParMax, cr \in 0..ParMax }

(* ------------------------------ object --------------------------------- *)
\* an instance before load_json: no attribute assigned (the two flags are
\* read only after load_json has assigned them)
NewObject ==
    [swept |-> FALSE, has_control_surface |-> FALSE,
     length_from_nose_to_leading_edge_at_root |-> Unset,
     parallel_length |-> Unset, perpendicular_length |-> Unset,
     root_chord |-> Unset, tip_chord |-> Unset, semispan |-> Unset,
     b |-> Unset, thickness |-> Unset,
     spanwise_distances_from_root |-> <<Unset, Unset>>,
     control_surface_chords |-> <<Unset, Unset>>,
     control_surface_thickness |-> <<Unset, Unset>>,
     x_offset_from_nose |-> Unset, le_sweep_angle |-> Unset,
     taper_ratio |-> Unset, control_surface_taper_ratio |-> Unset,
     quarter_chord_sweep_angle |-> Unset,
     thickness_root |-> Unset, thickness_tip |-> Unset,
     thickness_control_surface_root |-> Unset,
     thickness_control_surface_tip |-> Unset,
     control_surface_spanwise_location_root |-> Unset,
     control_surface_spanwise_location_tip |-> Unset,
     control_surface_chord_fraction_root |-> Unset,
     control_surface_chord_fraction_tip |-> Unset]

\* a method returned normally
Ok(o) == [o |-> o, exc |-> ""]

\* a method raised ZeroDivisionError in the statement assigning attribute a
Raise(o, a) == [o |-> o, exc |-> a]

\* load_json: every length converted from inches to feet
load_json(o, cfg) ==
    [o EXCEPT
       !.length_from_nose_to_leading_edge_at_root =
           inches_to_feet(cfg.length_from_nose_to_leading_edge_at_root),
       !.parallel_length = inches_to_feet(cfg.length_parallel_to_unswept_segment),
       !.perpendicular_length =
           inches_to_feet(cfg.length_perpendicular_to_unswept_segment),
       !.root_chord = inches_to_feet(cfg.root_chord),
       !.tip_chord = inches_to_feet(cfg.tip_chord),
       !.semispan = inches_to_feet(cfg.semispan),
       !.b = Mul(Float(2, 1), inches_to_feet(cfg.semispan)),
       !.thickness = inches_to_feet(cfg.thickness),
       !.swept = cfg.swept,
       !.has_control_surface = cfg.has_control_surface,
       !.spanwise_distances_from_root =
           <<inches_to_feet(cfg.spanwise_distance_from_root[1]),
             inches_to_feet(cfg.spanwise_distance_from_root[2])>>,
       !.control_surface_chords =
           <<inches_to_feet(cfg.chord[1]), inches_to_feet(cfg.chord[2])>>,
       !.control_surface_thickness =
           <<inches_to_feet(cfg.cs_thickness[1]), inches_to_feet(cfg.cs_thickness[2])>>]

calculate_x_offset_from_nose(o) ==
    Ok([o EXCEPT !.x_offset_from_nose =
           Sub(Neg(o.length_from_nose_to_leading_edge_at_root),
               Mul(o.root_chord, Float(1, 4)))])

calculate_le_sweep_angle(o) ==
    Ok([o EXCEPT !.le_sweep_angle =
           arctan2(o.perpendicular_length, o.parallel_length)])

\* a taper ratio that tolerates a zero root chord the way the thickness does
calculate_taper_ratio_sentinel(o) ==
    LET tr == IF IsZero(o.root_chord) THEN NA
              ELSE truediv(o.tip_chord, o.root_chord)
        cs == truediv(o.control_surface_chords[2], o.control_surface_chords[1])
    IN  IF Raised(cs)
        THEN Raise([o EXCEPT !.taper_ratio = tr], "control_surface_taper_ratio")
        ELSE Ok([o EXCEPT !.taper_ratio = tr, !.control_surface_taper_ratio = cs])

calculate_taper_ratio(o) ==
    LET tr == truediv(o.tip_chord, o.root_chord)
        cs == truediv(o.control_surface_chords[2], o.control_surface_chords[1])
    IN  IF Raised(tr) THEN Raise(o, "taper_ratio")
        ELSE IF Raised(cs)
             THEN Raise([o EXCEPT !.taper_ratio = tr], "control_surface_taper_ratio")
        ELSE Ok([o EXCEPT !.taper_ratio = tr, !.control_surface_taper_ratio = cs])

\* a correction term that forgets the "- 1"
taper_correction_no_minus_one(o) ==
    LET q == truediv(Float(1, 4), o.b)
    IN  IF Raised(q) THEN q
        ELSE Mul(Mul(Mul(Float(2, 1), q), o.root_chord), o.taper_ratio)

\* the correction term of line 119: 2*(0.25/b)*root_chord*(taper_ratio-1)
taper_correction(o) ==
    LET q == truediv(Float(1, 4), o.b)
    IN  IF Raised(q) THEN q
        ELSE Mul(Mul(Mul(Float(2, 1), q), o.root_chord),
                 Sub(o.taper_ratio, Float(1, 1)))

calculate_quarter_chord_sweep_angle(o) ==
    LET term == taper_correction(o)
    IN  IF Raised(term) THEN Raise(o, "quarter_chord_sweep_angle")
        ELSE Ok([o EXCEPT !.quarter_chord_sweep_angle =
                   arctan(tan_plus(tan(o.le_sweep_angle), term))])

calculate_thicknesses(o) ==
    LET o1 == [o EXCEPT !.thickness_root =
                  IF IsZero(o.root_chord) THEN NA
                  ELSE truediv(o.thickness, o.root_chord)]
        o2 == [o1 EXCEPT !.thickness_tip =
                  IF IsZero(o.tip_chord) THEN NA
                  ELSE truediv(o.thickness, o.tip_chord)]
        tr == truediv(o.control_surface_thickness[1], o.control_surface_chords[1])
        tp == truediv(o.control_surface_thickness[2], o.control_surface_chords[2])
    IN  IF Raised(tr) THEN Raise(o2, "thickness_control_surface_root")
        ELSE IF Raised(tp)
             THEN Raise([o2 EXCEPT !.thickness_control_surface_root = tr],
                        "thickness_control_surface_tip")
        ELSE Ok([o2 EXCEPT !.thickness_control_surface_root = tr,
                           !.thickness_control_surface_tip = tp])

\* spanwise locations divided the way numpy divides: an infinity, no exception
calculate_control_surface_spanwise_locations_numpy(o) ==
    Ok([o EXCEPT
          !.control_surface_spanwise_location_root =
              truediv_numpy(o.spanwise_distances_from_root[1], o.semispan),
          !.control_surface_spanwise_location_tip =
              truediv_numpy(o.spanwise_distances_from_root[2], o.semispan)])

calculate_control_surface_spanwise_locations(o) ==
    LET r == truediv(o.spanwise_distances_from_root[1], o.semispan)
        t == truediv(o.spanwise_distances_from_root[2], o.semispan)
    IN  IF Raised(r) THEN Raise(o, "control_surface_spanwise_location_root")
        ELSE IF Raised(t)
             THEN Raise([o EXCEPT !.control_surface_spanwise_location_root = r],
                        "control_surface_spanwise_location_tip")
        ELSE Ok([o EXCEPT !.control_surface_spanwise_location_root = r,
                          !.control_surface_spanwise_location_tip = t])

\* chord fractions that use the "N/A" sentinel for a zero chord
calculate_control_surface_chord_fraction_sentinel(o) ==
    Ok([o EXCEPT
          !.control_surface_chord_fraction_root =
              IF IsZero(o.root_chord) THEN NA
              ELSE truediv(o.control_surface_chords[1], o.root_chord),
          !.control_surface_chord_fraction_tip =
              IF IsZero(o.tip_chord) THEN NA
              ELSE truediv(o.control_surface_chords[2], o.tip_chord)])

calculate_control_surface_chord_fraction(o) ==
    LET r == truediv(o.control_surface_chords[1], o.root_chord)
        t == truediv(o.control_surface_chords[2], o.tip_chord)
    IN  IF Raised(r) THEN Raise(o, "control_surface_chord_fraction_root")
        ELSE IF Raised(t)
             THEN Raise([o EXCEPT !.control_surface_chord_fraction_root = r],
                        "control_surface_chord_fraction_tip")
        ELSE Ok([o EXCEPT !.control_surface_chord_fraction_root = r,
                          !.control_surface_chord_fraction_tip = t])

(* ------------------------------ printing ------------------------------- *)
\* one print call: the label and the value printed after it
Line(label, value) == [label |-> label, value |-> value]

\* a print call that prints no attribute
NoValue == [t |-> "none", n |-> 0, d |-> 1]

\* lines 12-13
print_header == <<Line("", NoValue), Line("Lifting Surface Name:", NoValue)>>

\* lines 189-199
print_swept(o) ==
    <<Line("Swept Geometric Parameters", NoValue),
      Line("x offset from nose[ft]: ", o.x_offset_from_nose),
      Line("Chord at root[ft]: ", o.root_chord),
      Line("Chord at tip[ft]: ", o.tip_chord),
      Line("Leading edge sweep angle[deg]: ", degrees(o.le_sweep_angle)),
      Line("Taper ratio: ", o.taper_ratio),
      Line("Quarter chord sweep angle[deg]: ", degrees(o.quarter_chord_sweep_angle)),
      Line("Thickness divided by root chord: ", o.thickness_root),
      Line("Thickness divided by tip chord: ", o.thickness_tip),
      Line("semispan[ft]: ", o.semispan),
      Line("\n", NoValue)>>

\* lines 217-225
print_unswept(o) ==
    <<Line("Unswept Geometric Parameters", NoValue),
      Line("x offset from nose[ft]: ", o.x_offset_from_nose),
      Line("Chord at root[ft]: ", o.root_chord),
      Line("Chord at tip[ft]: ", o.tip_chord),
      Line("Taper ratio: ", o.taper_ratio),
      Line("Thickness divided by root chord: ", o.thickness_root),
      Line("Thickness divided by tip chord: ", o.thickness_tip),
      Line("semispan[ft]: ", o.semispan),
      Line("\n", NoValue)>>

\* line 240
print_control_surface_name == <<Line("Control Surface Name:", NoValue)>>

\* lines 243-249
print_control_surface(o) ==
    <<Line("Control Surface Chord Fraction Root: ", o.control_surface_chord_fraction_root),
      Line("Control Surface Chord Fraction Tip: ", o.control_surface_chord_fraction_tip),
      Line("Control Surface Taper Ratio: ", o.control_surface_taper_ratio),
      Line("Control Surface Thickness divided by Root Chord: ",
           o.thickness_control_surface_root),
      Line("Control Surface Thickness divided by Tip Chord: ",
           o.thickness_control_surface_tip),
      Line("Control Surface Spanwise Location Root: ",
           o.control_surface_spanwise_location_root),
      Line("Control Surface Spanwise Location Tip: ",
           o.control_surface_spanwise_location_tip)>>

\* lines 19, 25 and 26: print("")
print_blank == <<Line("", NoValue)>>

(* ------------------------------ state ---------------------------------- *)
\* no exception has been raised
NoError == [type |-> "", at |-> ""]

\* the derivations (constructor calls) of this run
Threads == DOMAIN pc

\* the state right after aircraft_geometry(input_data) is entered (line 10),
\* once for each configuration of cfgs
Start(cfgs) ==
    /\ input = cfgs
    /\ obj = [i \in DOMAIN cfgs |-> NewObject]
    /\ pc = [i \in DOMAIN cfgs |-> "load_json"]
    /\ out = [i \in DOMAIN cfgs |-> <<>>]
    /\ err = [i \in DOMAIN cfgs |-> NoError]

\* one derivation, as the program runs it (line 266), on each configuration
\* drawn.  The sweep-defining offsets are read only on the swept path
\* (line 93) and the spanwise distances only when a control surface is
\* present (lines 155-156): where a field is never read, one value is drawn.
Init ==
    \E sw \in BOOLEAN, hc \in BOOLEAN :
      \E par \in IF sw THEN -1..MaxOffset ELSE {1},
         perp \in IF sw THEN 0..MaxOffset ELSE {1},
         rc \in 0..MaxChord, tc \in 0..MaxChord, ss \in 0..MaxSpan,
         th \in Thicknesses,
         sr \in IF hc THEN 0..(MaxSpan + 1) ELSE {0},
         st \in IF hc THEN 0..(MaxSpan + 1) ELSE {1},
         cr \in 0..MaxCsChord, ctip \in 0..MaxCsChord :
        Start(<<Config(sw, hc, 12, par, perp, rc, tc, ss, th,
                       <<sr, st>>, <<cr, ctip>>, <<1, 1>>)>>)

\* two derivations for two inputs, started side by side
InitPar == \E c1 \in ParInputs, c2 \in ParInputs : Start(<<c1, c2>>)

\* the method at pc[i] returned r: go on at next, or end with the exception
Return(i, r, next) ==
    /\ obj' = [obj EXCEPT ![i] = r.o]
    /\ IF r.exc = ""
       THEN /\ pc' = [pc EXCEPT ![i] = next]
            /\ UNCHANGED err
       ELSE /\ pc' = [pc EXCEPT ![i] = "done"]
            /\ err' = [err EXCEPT ![i] = [type |-> "ZeroDivisionError", at |-> r.exc]]
    /\ UNCHANGED <<input, out>>

\* the print calls at pc[i] wrote lines, then the run goes on at next
Emit(i, lines, next) ==
    /\ out' = [out EXCEPT ![i] = out[i] \o lines]
    /\ pc' = [pc EXCEPT ![i] = next]
    /\ UNCHANGED <<input, obj, err>>

(* ------------------------------ actions -------------------------------- *)
\* a load_json that opens one fixed file whatever input_data names
LoadJsonFixedFile(i) ==
    /\ pc[i] = "load_json"
    /\ Return(i, Ok(load_json(obj[i], input[1])), "print_header")

\* line 11
LoadJson(i) ==
    /\ pc[i] = "load_json"
    /\ Return(i, Ok(load_json(obj[i], input[i])), "print_header")

\* lines 12-14, 20
PrintHeader(i) ==
    /\ pc[i] = "print_header"
    /\ Emit(i, print_header,
             IF obj[i].swept THEN "calculate_le_sweep_angle"
             ELSE "calculate_taper_ratio")

\* line 183
CalculateLeSweepAngle(i) ==
    /\ pc[i] = "calculate_le_sweep_angle"
    /\ Return(i, calculate_le_sweep_angle(obj[i]), "calculate_taper_ratio")

\* lines 184, 214
CalculateTaperRatio(i) ==
    /\ pc[i] = "calculate_taper_ratio"
    /\ Return(i, calculate_taper_ratio(obj[i]), "calculate_thicknesses")

\* the primary block printed right after the thicknesses, before the x offset
CalculateThicknessesThenReport(i) ==
    /\ pc[i] = "calculate_thicknesses"
    /\ Return(i, calculate_thicknesses(obj[i]),
              IF obj[i].swept THEN "print_swept" ELSE "print_unswept")

\* lines 185, 215
CalculateThicknesses(i) ==
    /\ pc[i] = "calculate_thicknesses"
    /\ Return(i, calculate_thicknesses(obj[i]), "calculate_x_offset_from_nose")

\* lines 186, 216
CalculateXOffsetFromNose(i) ==
    /\ pc[i] = "calculate_x_offset_from_nose"
    /\ Return(i, calculate_x_offset_from_nose(obj[i]),
              IF obj[i].swept THEN "calculate_quarter_chord_sweep_angle"
              ELSE "print_unswept")

\* line 187
CalculateQuarterChordSweepAngle(i) ==
    /\ pc[i] = "calculate_quarter_chord_sweep_angle"
    /\ Return(i, calculate_quarter_chord_sweep_angle(obj[i]), "print_swept")

\* the branch of lines 16-19 and 22-25
AfterPrimary(o) ==
    IF o.has_control_surface THEN "print_control_surface_name" ELSE "print_blank"

\* lines 189-199, then line 16
PrintSwept(i) ==
    /\ pc[i] = "print_swept"
    /\ Emit(i, print_swept(obj[i]), AfterPrimary(obj[i]))

\* lines 217-225, then line 22
PrintUnswept(i) ==
    /\ pc[i] = "print_unswept"
    /\ Emit(i, print_unswept(obj[i]), AfterPrimary(obj[i]))

\* line 240
PrintControlSurfaceName(i) ==
    /\ pc[i] = "print_control_surface_name"
    /\ Emit(i, print_control_surface_name,
             "calculate_control_surface_spanwise_locations")

\* line 241
CalculateControlSurfaceSpanwiseLocations(i) ==
    /\ pc[i] = "calculate_control_surface_spanwise_locations"
    /\ Return(i, calculate_control_surface_spanwise_locations(obj[i]),
              "calculate_control_surface_chord_fraction")

\* line 242
CalculateControlSurfaceChordFraction(i) ==
    /\ pc[i] = "calculate_control_surface_chord_fraction"
    /\ Return(i, calculate_control_surface_chord_fraction(obj[i]),
              "print_control_surface")

\* lines 243-249
PrintControlSurface(i) ==
    /\ pc[i] = "print_control_surface"
    /\ Emit(i, print_control_surface(obj[i]), "print_trailer")

\* lines 19, 25
PrintBlank(i) ==
    /\ pc[i] = "print_blank"
    /\ Emit(i, print_blank, "print_trailer")

\* line 26
PrintTrailer(i) ==
    /\ pc[i] = "print_trailer"
    /\ Emit(i, print_blank, "done")

Next ==
    \/ \E i \in Threads : LoadJson(i)
    \/ \E i \in Threads : PrintHeader(i)
    \/ \E i \in Threads : CalculateLeSweepAngle(i)
    \/ \E i \in Threads : CalculateTaperRatio(i)
    \/ \E i \in Threads : CalculateThicknesses(i)
    \/ \E i \in Threads : CalculateXOffsetFromNose(i)
    \/ \E i \in Threads : CalculateQuarterChordSweepAngle(i)
    \/ \E i \in Threads : PrintSwept(i)
    \/ \E i \in Threads : PrintUnswept(i)
    \/ \E i \in Threads : PrintControlSurfaceName(i)
    \/ \E i \in Threads : CalculateControlSurfaceSpanwiseLocations(i)
    \/ \E i \in Threads : CalculateControlSurfaceChordFraction(i)
    \/ \E i \in Threads : PrintControlSurface(i)
    \/ \E i \in Threads : PrintBlank(i)
    \/ \E i \in Threads : PrintTrailer(i)

Spec == Init /\ [][Next]_vars

SpecPar == InitPar /\ [][Next]_vars

(* --------------------- one derivation, run alone ----------------------- *)
\* lines 183-187 and 214-216: the methods of the primary block, in order,
\* each run if the one before it returned
primary_methods(o) ==
    LET r0 == IF o.swept THEN calculate_le_sweep_angle(o) ELSE Ok(o)
        r1 == IF r0.exc = "" THEN calculate_taper_ratio(r0.o) ELSE r0
        r2 == IF r1.exc = "" THEN calculate_thicknesses(r1.o) ELSE r1
        r3 == IF r2.exc = "" THEN calculate_x_offset_from_nose(r2.o) ELSE r2
    IN  IF o.swept /\ r3.exc = ""
        THEN calculate_quarter_chord_sweep_angle(r3.o)
        ELSE r3

\* lines 241-242
control_surface_methods(o) ==
    LET r0 == calculate_control_surface_spanwise_locations(o)
    IN  IF r0.exc = "" THEN calculate_control_surface_chord_fraction(r0.o) ELSE r0

\* __init__ run from entry to return or to the uncaught exception
Construct(cfg) ==
    LET o0 == load_json(NewObject, cfg)
        p  == primary_methods(o0)
        primary == IF o0.swept THEN print_swept(p.o) ELSE print_unswept(p.o)
        c  == control_surface_methods(p.o)
        raised(a) == [type |-> "ZeroDivisionError", at |-> a]
    IN  IF p.exc # ""
        THEN [o |-> p.o, out |-> print_header, err |-> raised(p.exc)]
        ELSE IF ~o0.has_control_surface
        THEN [o |-> p.o, err |-> NoError,
              out |-> print_header \o primary \o print_blank \o print_blank]
        ELSE IF c.exc # ""
        THEN [o |-> c.o, err |-> raised(c.exc),
              out |-> print_header \o primary \o print_control_surface_name]
        ELSE [o |-> c.o, err |-> NoError,
              out |-> print_header \o primary \o print_control_surface_name
                        \o print_control_surface(c.o) \o print_blank]

(* ------------------------------ claims --------------------------------- *)
Done(i) == pc[i] = "done"

Failed(i) == err[i].type = "ZeroDivisionError"

FailedAt(i, ats) == Failed(i) /\ err[i].at \in ats

Positive(v) == v.t = "float" /\ v.n > 0

\* the ratios of the primary lifting surface
PrimaryRatios(o) ==
    <<o.taper_ratio, o.thickness_root, o.thickness_tip, o.x_offset_from_nose,
      o.le_sweep_angle, o.quarter_chord_sweep_angle>>

\* the ratios of the control surface
ControlSurfaceRatios(o) ==
    <<o.control_surface_taper_ratio, o.thickness_control_surface_root,
      o.thickness_control_surface_tip, o.control_surface_chord_fraction_root,
      o.control_surface_chord_fraction_tip,
      o.control_surface_spanwise_location_root,
      o.control_surface_spanwise_location_tip>>

Values(o) == PrimaryRatios(o) \o ControlSurfaceRatios(o)

NoInfinity(o) == \A k \in DOMAIN Values(o) : Values(o)[k].t # "inf"

AllChordsNonZero(cfg) ==
    /\ ~IsZero(cfg.root_chord) /\ ~IsZero(cfg.tip_chord)
    /\ ~IsZero(cfg.chord[1]) /\ ~IsZero(cfg.chord[2])

\* the print calls of a sequence that report a derived or input value
ValueLines(lines) == {k \in DOMAIN lines : lines[k].value # NoValue}

\* C1: a derivation whose root_chord is 0 ends with thickness_root equal
\* to the "N/A" sentinel and without a raised error, on either path.
C1_ZeroRootChordYieldsSentinel ==
    \A i \in Threads :
        (Done(i) /\ IsZero(input[i].root_chord))
            => (obj[i].thickness_root = NA /\ ~Failed(i))

\* C2: with root_chord 0 no taper_ratio is ever assigned (no number, no
\* infinity, no sentinel), and the derivation ends in the exception raised
\* by the statement that computes taper_ratio.
C2_ZeroRootChordFailsAtTaperRatio ==
    \A i \in Threads :
        IsZero(input[i].root_chord)
            => /\ obj[i].taper_ratio = Unset
               /\ Done(i) => FailedAt(i, {"taper_ratio"})

C2_Witness ==
    \E i \in Threads :
        /\ Done(i) /\ IsZero(input[i].root_chord)
        /\ FailedAt(i, {"taper_ratio"})
        /\ ~IsZero(input[i].chord[1])

\* C3: without a control surface the control-surface inputs are not used:
\* two derivations that differ only in the control-surface chords,
\* thicknesses and spanwise distances end the same way, with the same error
\* or success and the same primary-surface values.
SamePrimaryInput(c1, c2) ==
    [c1 EXCEPT !.chord = c2.chord, !.cs_thickness = c2.cs_thickness,
               !.spanwise_distance_from_root = c2.spanwise_distance_from_root] = c2

C3_ControlSurfaceInputsUnusedWithoutControlSurface ==
    \A i \in Threads, j \in Threads :
        (/\ Done(i) /\ Done(j)
         /\ ~input[i].has_control_surface /\ ~input[j].has_control_surface
         /\ SamePrimaryInput(input[i], input[j]))
            => /\ err[i] = err[j]
               /\ PrimaryRatios(obj[i]) = PrimaryRatios(obj[j])

\* C4 as claimed: with semispan 0, a control surface and no zero chord,
\* the derivation fails in the spanwise-location step on either path, and
\* no infinity is produced.
SemispanZeroCase(cfg) ==
    IsZero(cfg.semispan) /\ cfg.has_control_surface /\ AllChordsNonZero(cfg)

SpanwiseLocationAttrs ==
    {"control_surface_spanwise_location_root", "control_surface_spanwise_location_tip"}

C5_ControlSurfaceZeroDenominatorFails ==
    \A i \in Threads :
        /\ \A k \in DOMAIN ControlSurfaceRatios(obj[i]) :
               ControlSurfaceRatios(obj[i])[k] # NA
        /\ (/\ Done(i) /\ input[i].has_control_surface
            /\ ~AllChordsNonZero(input[i]))
               => Failed(i)

C5_Witness ==
    \E i \in Threads :
        /\ Done(i) /\ input[i].has_control_surface
        /\ IsZero(input[i].tip_chord)
        /\ FailedAt(i, {"control_surface_chord_fraction_tip"})
        /\ obj[i].thickness_tip = NA

\* C6: an unswept derivation with root_chord > 0, tip_chord 0 and no
\* control surface succeeds with taper_ratio 0, thickness_tip "N/A" and
\* thickness_root = thickness / root_chord; and thickness_tip, once
\* computed, is the sentinel exactly when tip_chord is 0.
C6_UnsweptZeroTipChordSucceeds ==
    \A i \in Threads :
        /\ (/\ Done(i) /\ ~input[i].swept /\ ~input[i].has_control_surface
            /\ Positive(input[i].root_chord) /\ IsZero(input[i].tip_chord))
               => /\ ~Failed(i)
                  /\ obj[i].taper_ratio = Float(0, 1)
                  /\ obj[i].thickness_tip = NA
                  /\ obj[i].thickness_root =
                         truediv(obj[i].thickness, obj[i].root_chord)
        /\ obj[i].thickness_tip # Unset
               => (obj[i].thickness_tip = NA <=> IsZero(input[i].tip_chord))

\* C7: with a control surface and semispan > 0, a derivation produces a
\* result only for 0 <= root distance <= tip distance <= semispan, and
\* then both spanwise locations lie in [0, 1], root location <= tip location.
OrderedDistances(cfg) ==
    /\ Leq(Float(0, 1), cfg.spanwise_distance_from_root[1])
    /\ Leq(cfg.spanwise_distance_from_root[1], cfg.spanwise_distance_from_root[2])
    /\ Leq(cfg.spanwise_distance_from_root[2], cfg.semispan)

LocationsInUnitInterval(o) ==
    /\ Leq(Float(0, 1), o.control_surface_spanwise_location_root)
    /\ Leq(o.control_surface_spanwise_location_root,
           o.control_surface_spanwise_location_tip)
    /\ Leq(o.control_surface_spanwise_location_tip, Float(1, 1))

C7_SpanwiseLocationsValidated ==
    \A i \in Threads :
        (/\ Done(i) /\ ~Failed(i)
         /\ input[i].has_control_surface /\ Positive(input[i].semispan))
            => (OrderedDistances(input[i]) /\ LocationsInUnitInterval(obj[i]))

\* C8: on the swept path, for non-negative lengths with root_chord > 0 and
\* semispan > 0, a taper_ratio of 1 makes the correction term of the
\* quarter-chord sweep exactly 0 and quarter_chord_sweep_angle equal to
\* le_sweep_angle.
NonNegativeLengths(cfg) ==
    /\ Leq(Float(0, 1), cfg.length_parallel_to_unswept_segment)
    /\ Leq(Float(0, 1), cfg.length_perpendicular_to_unswept_segment)
    /\ Leq(Float(0, 1), cfg.root_chord) /\ Leq(Float(0, 1), cfg.tip_chord)
    /\ Leq(Float(0, 1), cfg.semispan)

UntaperedSweptCase(i) ==
    /\ input[i].swept /\ NonNegativeLengths(input[i])
    /\ Positive(input[i].root_chord) /\ Positive(input[i].semispan)
    /\ obj[i].taper_ratio = Float(1, 1)
    /\ obj[i].quarter_chord_sweep_angle # Unset

C8_UntaperedQuarterChordSweepIsLeadingEdgeSweep ==
    \A i \in Threads :
        UntaperedSweptCase(i)
            => /\ taper_correction(obj[i]) = Float(0, 1)
               /\ obj[i].quarter_chord_sweep_angle = obj[i].le_sweep_angle

C8_Witness ==
    \E i \in Threads :
        /\ UntaperedSweptCase(i)
        /\ Positive(input[i].length_parallel_to_unswept_segment)
        /\ Positive(input[i].length_perpendicular_to_unswept_segment)
        /\ obj[i].quarter_chord_sweep_angle = Angle(1, 1)

PrimaryComputed(o) ==
    /\ o.taper_ratio # Unset /\ o.thickness_root # Unset
    /\ o.thickness_tip # Unset /\ o.x_offset_from_nose # Unset
    /\ o.swept => (o.le_sweep_angle # Unset /\ o.quarter_chord_sweep_angle # Unset)

PrimaryBlock(o) == IF o.swept THEN print_swept(o) ELSE print_unswept(o)

PrimaryFailures ==
    {"taper_ratio", "control_surface_taper_ratio",
     "thickness_control_surface_root", "thickness_control_surface_tip",
     "quarter_chord_sweep_angle"}

ControlSurfaceFailures ==
    SpanwiseLocationAttrs \cup
    {"control_surface_chord_fraction_root", "control_surface_chord_fraction_tip"}

InControlSurfaceSteps(i) ==
    \/ pc[i] \in {"calculate_control_surface_spanwise_locations",
                  "calculate_control_surface_chord_fraction"}
    \/ obj[i].control_surface_spanwise_location_root # Unset
    \/ obj[i].control_surface_chord_fraction_root # Unset

C10_PrimaryBlockOrdering ==
    \A i \in Threads :
        /\ ValueLines(out[i]) # {} => PrimaryComputed(obj[i])
        /\ InControlSurfaceSteps(i)
               => SubSeq(out[i], 1, Len(print_header) + Len(PrimaryBlock(obj[i])))
                      = print_header \o PrimaryBlock(obj[i])
        /\ (Done(i) /\ FailedAt(i, PrimaryFailures)) => ValueLines(out[i]) = {}
        /\ (Done(i) /\ FailedAt(i, ControlSurfaceFailures))
               => out[i] = print_header \o PrimaryBlock(obj[i])
                             \o print_control_surface_name

C10_Witness ==
    \E i \in Threads :
        /\ Done(i)
        /\ FailedAt(i, {"control_surface_chord_fraction_tip"})
        /\ obj[i].swept
        /\ ValueLines(out[i]) # {}

=============================================================================
